---------------------------- MODULE Spec2Model ----------------------------
(***************************************************************************)
(* Model of the Grain budget planner (src/src/app/page.tsx).               *)
(*                                                                         *)
(* Units.  JavaScript numbers are modelled by exact fixed-point integers:  *)
(*   - money is held in cents (4000 dollars = 400000);                     *)
(*   - percentages (APRs, the crypto percentage) are held in hundredths of *)
(*     a percent (19.99 % = 1999);                                         *)
(*   - the nominal invest share is held in hundredths (0.55 = 55);         *)
(*   - a reported ratio is a pair <<numerator, denominator>>.              *)
(* Math.round is round-half-up, Math.ceil is the ceiling, both computed on *)
(* the exact quotient.                                                     *)
(*                                                                         *)
(* Specifications.                                                         *)
(*   Spec          the dashboard from its default state under user edits   *)
(*                 (number fields, -/+ buttons, risk Select, two sliders); *)
(*   SpecAlloc     the allocation memo rendered on drawn dashboard states; *)
(*   SpecBreakdown investBreakdown applied to drawn arguments;             *)
(*   SpecGoal      monthsToGoal applied to drawn arguments;                *)
(*   SpecInsights  the insights memo rendered on drawn dashboard states;   *)
(*   SpecWhatIf    the dashboard rendered before and after a move of the   *)
(*                 what-if slider, on drawn dashboard states;              *)
(*   SpecChat      one Ask Grain sheet, the network and the route          *)
(*                 POST /api/ask-grain (src/src/app/api/ask-grain/route.ts *)
(*                 and the client factory getOpenAIClient);                *)
(*   FairSpecChat  SpecChat with the awaited calls settling;               *)
(*   SpecRoute     the route under requests of any caller;                 *)
(*   SpecSeed      the app shell: the onboarding wizard, the snapshot in   *)
(*                 localStorage and the dashboard loading it.              *)
(***************************************************************************)
EXTENDS Integers, Sequences, FiniteSets, TLC

VARIABLES
    \* GrainDashboard state (useState hooks, page.tsx 864-881)
    income, rent, utilities, insurance, transport, groceries, dining,
    subscriptions, other, ccDebt, ccApr, studentLoan, studentApr, risk,
    cryptoPct, whatIf,
    \* number of user edits made so far in the session (exploration bound)
    edits,
    \* harness of the specifications that apply one function to drawn inputs:
    \* the arguments, the returned value and the position of the call
    args, out, pc,
    \* AskGrainSheet props and state (page.tsx 144-160)
    open, presetMsg, chatInput, chatHistory, isSending,
    \* the POST requests issued to /api/ask-grain, in order of issue
    requests,
    \* the server process: OPENAI_API_KEY and the module variable cachedClient
    apiKey, cachedClient,
    \* GrainApp mode (page.tsx 316), the OnboardingWizard step and state
    \* (page.tsx 335-369; once the wizard has completed, the values it held),
    \* the item stored under STORAGE_KEY, and how localStorage behaves
    mode, step, wizard, storage, storageEnv

dashVars == <<income, rent, utilities, insurance, transport, groceries, dining,
              subscriptions, other, ccDebt, ccApr, studentLoan, studentApr,
              risk, cryptoPct, whatIf>>
callVars == <<args, out, pc>>
chatVars == <<open, presetMsg, chatInput, chatHistory, isSending>>
serverVars == <<apiKey, cachedClient>>
appVars == <<mode, step, wizard, storage, storageEnv>>
sessionVars == <<chatVars, requests, serverVars, appVars>>
vars == <<dashVars, edits, callVars, sessionVars>>

(***************************************************************************)
(* Bounds of the model.                                                    *)
(***************************************************************************)
\* user edits explored from the freshly mounted dashboard
MaxEdits == 2
\* leftovers 0 .. MaxLeftoverCents cents are all drawn by SpecAlloc
MaxLeftoverCents == 300
\* invest amounts 0 .. MaxInvestDollars whole dollars are drawn by SpecBreakdown
MaxInvestDollars == 60
\* monthly rates -2 .. MaxRateSteps, in steps of 50 cents, are drawn by SpecGoal
MaxRateSteps == 12
\* POST requests issued to the route in one run
MaxPosts == 2
\* edits made in the onboarding wizard in one run, risk cards aside
MaxWizardEdits == 1

(***************************************************************************)
(* Arithmetic of the JavaScript Math object on exact quotients.            *)
(***************************************************************************)
Max(a, b) == IF a >= b THEN a ELSE b

Min(a, b) == IF a <= b THEN a ELSE b

\* Math.round(n / d) for d > 0: the nearest integer, halves towards +infinity
MathRound(n, d) == (2 * n + d) \div (2 * d)

\* Math.ceil(n / d) for d > 0
MathCeil(n, d) == -((-n) \div d)

\* Math.round of an amount held in hundredths, result again in hundredths
RoundWhole(x) == 100 * MathRound(x, 100)

(***************************************************************************)
(* Constants and top-level functions of page.tsx.                          *)
(***************************************************************************)
DEMO_GOALS ==
    << [id |-> 1, target |-> 2500000, saved |-> 820000],
       [id |-> 2, target |-> 300000, saved |-> 120000] >>

\* a mutation of monthsToGoal: Math.floor(...) + 1 instead of Math.ceil
monthsToGoal_floorPlusOne(target, saved, monthly) ==
    LET remaining == Max(0, target - saved)
    IN  (remaining \div Max(100, monthly)) + 1

\* a mutation of monthsToGoal: the remaining amount is not floored at 0
monthsToGoal_noFloor(target, saved, monthly) ==
    MathCeil(target - saved, Max(100, monthly))

\* const monthsToGoal = (target, saved, monthly) => ...   (amounts in cents)
monthsToGoal(target, saved, monthly) ==
    LET remaining == Max(0, target - saved)
    IN  MathCeil(remaining, Max(100, monthly))

\* a mutation of investBreakdown: the crypto amount is not taken off the rest
investBreakdown_noSubtract(total, pct) ==
    LET cap == Min(1000, Max(0, pct))
        crypto == 100 * MathRound(total * cap, 1000000)
        remaining == Max(0, total)
        etf == 100 * MathRound(remaining * 8, 1000)
        bond == Max(0, remaining - etf)
    IN  [crypto |-> crypto, etf |-> etf, bond |-> bond]

\* a mutation of investBreakdown: the bond amount is its own 20 % share,
\* rounded down, instead of what the etf amount leaves
investBreakdown_ownBond(total, pct) ==
    LET cap == Min(1000, Max(0, pct))
        crypto == 100 * MathRound(total * cap, 1000000)
        remaining == Max(0, total - crypto)
        etf == 100 * MathRound(remaining * 8, 1000)
        bond == 100 * ((remaining * 2) \div 1000)
    IN  [crypto |-> crypto, etf |-> etf, bond |-> bond]

\* function investBreakdown(total, cryptoPct)   (total in cents, pct in 1/100 %)
investBreakdown(total, pct) ==
    LET cap == Min(1000, Max(0, pct))                      \* cap / 10000
        crypto == 100 * MathRound(total * cap, 1000000)    \* round(total * cap)
        remaining == Max(0, total - crypto)
        etf == 100 * MathRound(remaining * 8, 1000)        \* round(remaining * 0.8)
        bond == Max(0, remaining - etf)
    IN  [crypto |-> crypto, etf |-> etf, bond |-> bond]

(***************************************************************************)
(* OnboardingWizard: derived calcs over the wizard's own state, given here *)
(* as a record w of its useState values (page.tsx 354-357).                *)
(***************************************************************************)
wizardFixedTotal(w) == w.rent + w.utilities + w.insurance + w.subscriptions

wizardVariableTotal(w) == w.transport + w.groceries + w.dining + w.other

wizardSpendTotal(w) == wizardFixedTotal(w) + wizardVariableTotal(w)

wizardLeftover(w) == Max(0, w.income - wizardSpendTotal(w))

(***************************************************************************)
(* GrainDashboard: derived calcs (page.tsx 914-938, 975-978).              *)
(***************************************************************************)
\* a mutation of fixedTotal: the subscriptions are left out of the sum
fixedTotal_noSubscriptions == rent + utilities + insurance

fixedTotal == rent + utilities + insurance + subscriptions

variableTotal == transport + groceries + dining + other

spendTotal == fixedTotal + variableTotal

leftover == Max(0, income - spendTotal)

\* a mutation of baseShare: "yolo" is not overwritten and keeps the fall-through
baseShare_noYolo(r) ==
    IF r = "conservative" THEN 30 ELSE IF r = "balanced" THEN 55 ELSE 75

\* let share = risk === "conservative" ? 0.3 : risk === "balanced" ? 0.55 : 0.75;
\* if (risk === "yolo") share = 0.8;
baseShare(r) ==
    LET share == IF r = "conservative" THEN 30
                 ELSE IF r = "balanced" THEN 55 ELSE 75
    IN  IF r = "yolo" THEN 80 ELSE share

\* a mutation of nominalShare: the reduced share is not floored at 0.15
nominalShare_noFloor(r, debt, apr) ==
    IF debt > 0 /\ apr > 1000 THEN baseShare(r) - 25 ELSE baseShare(r)

\* if (ccDebt > 0 && ccApr > 10) share = Math.max(0.15, share - 0.25);
nominalShare(r, debt, apr) ==
    LET share == baseShare(r)
    IN  IF debt > 0 /\ apr > 1000 THEN Max(15, share - 25) ELSE share

\* a mutation of allocation: the invest amount is rounded down
allocation_floorInvest(lo, r, debt, apr) ==
    LET share == nominalShare(r, debt, apr)
        invest == 100 * ((lo * share) \div 10000)
        save == Max(0, lo - invest)
        effectiveShare == IF lo > 0 THEN <<invest, Max(100, lo)>>
                          ELSE <<share, 100>>
    IN  [recSaveCash |-> save, recInvest |-> invest, investShare |-> effectiveShare]

\* the useMemo over [leftover, risk, ccDebt, ccApr] (page.tsx 922-930);
\* investShare is the pair <<numerator, denominator>> of effectiveShare
allocation(lo, r, debt, apr) ==
    LET share == nominalShare(r, debt, apr)
        invest == 100 * MathRound(lo * share, 10000)   \* Math.round(leftover * share)
        save == Max(0, lo - invest)
        effectiveShare == IF lo > 0 THEN <<invest, Max(100, lo)>>
                          ELSE <<share, 100>>
    IN  [recSaveCash |-> save, recInvest |-> invest, investShare |-> effectiveShare]

recSaveCash == allocation(leftover, risk, ccDebt, ccApr).recSaveCash

recInvest == allocation(leftover, risk, ccDebt, ccApr).recInvest

investShare == allocation(leftover, risk, ccDebt, ccApr).investShare

\* Math.round(Math.min(1, Math.max(0, investShare)) * 100) (page.tsx 934)
investSharePct ==
    LET clamped == Min(investShare[2], Max(0, investShare[1]))
    IN  MathRound(100 * clamped, investShare[2])

\* a mutation of monthlyToGoals: the what-if boost counted in the base plan
monthlyToGoals_withBoost == recSaveCash + recInvest + whatIf

monthlyToGoals == recSaveCash + recInvest

\* a mutation of monthlyToGoalsBoosted: the boost is taken off instead of added
monthlyToGoalsBoosted_minus == monthlyToGoals - whatIf

monthlyToGoalsBoosted == monthlyToGoals + whatIf

\* Math.max(0, leftover - monthlyToGoals) (page.tsx 936)
monthlyAfterGoals == Max(0, leftover - monthlyToGoals)

\* GoalRow (page.tsx 98-104): the two projections shown for one goal
GoalRow(g, monthly, monthlyBoost) ==
    [mBase |-> monthsToGoal(g.target, g.saved, monthly),
     mBoost |-> monthsToGoal(g.target, g.saved, monthly + monthlyBoost)]

primaryGoal == DEMO_GOALS[1]

monthsToPrimary == monthsToGoal(primaryGoal.target, primaryGoal.saved, monthlyToGoals)

monthsToPrimaryBoost ==
    monthsToGoal(primaryGoal.target, primaryGoal.saved, monthlyToGoalsBoosted)

\* investBreakdown(recInvest, cryptoPct) (page.tsx 938): the crypto, etf and
\* bond amounts shown in the investment mix
investMix == investBreakdown(recInvest, cryptoPct)

(***************************************************************************)
(* The insight rules (page.tsx 980-990).  An insight is modelled by its     *)
(* tag and the amounts (cents) printed in its detail text.                  *)
(***************************************************************************)
monthlyCoreSpend == rent + utilities + groceries + transport + insurance

\* Math.round(monthlyCoreSpend * 4)
emergencyTarget == RoundWhole(4 * monthlyCoreSpend)

\* a mutation of housingHigh: the 30 % benchmark used as the threshold
housingHigh_at30 == 100 * rent > 30 * Max(100, income)

\* housingPct > 35, where housingPct = (rent / Math.max(1, income)) * 100
housingHigh == 100 * rent > 35 * Max(100, income)

\* Math.round(((housingPct - 30) / 100) * income): with income >= 1 dollar the
\* divisor is the income and the amount is round(rent - 0.3 * income); below
\* one dollar the divisor is 1 and it is round((rent - 0.3) * income)
housingTrim ==
    IF income >= 100 THEN 100 * MathRound(10 * rent - 3 * income, 1000)
    ELSE 100 * MathRound((rent - 30) * income, 10000)

\* Math.round((ccApr / 100 / 12) * ccDebt)
cardInterestNextMonth == 100 * MathRound(ccApr * ccDebt, 12000000)

\* the six rules in declaration order: the condition of each push and the
\* insight it pushes
insightRules ==
    << [when |-> housingHigh,
        insight |-> [tag |-> "benchmark", amounts |-> <<housingTrim>>]],
       [when |-> ccDebt > 0 /\ ccApr >= 1500,
        insight |-> [tag |-> "debt",
                     amounts |-> <<Min(30000, monthlyToGoals),
                                   cardInterestNextMonth>>]],
       [when |-> subscriptions > 4000,
        insight |-> [tag |-> "quick win", amounts |-> <<12 * subscriptions>>]],
       [when |-> dining > 20000,
        insight |-> [tag |-> "behavior",
                     amounts |-> <<100 * MathRound(dining, 500),
                                   100 * MathRound(12 * dining, 500)>>]],
       [when |-> monthlyToGoals < 50000,
        insight |-> [tag |-> "coach",
                     amounts |-> <<monthlyToGoals,
                                   100 * MathRound(income, 500)>>]],
       [when |-> monthlyCoreSpend > 0,
        insight |-> [tag |-> "safety",
                     amounts |-> <<emergencyTarget, monthlyCoreSpend>>]] >>

\* the array `out` after the first k rules have run
RECURSIVE pushed(_)
pushed(k) ==
    IF k = 0 THEN <<>>
    ELSE IF insightRules[k].when THEN Append(pushed(k - 1), insightRules[k].insight)
    ELSE pushed(k - 1)

\* a mutation of insights: the array returned without the slice
insights_noSlice == pushed(Len(insightRules))

\* out.slice(0, 5)
insights ==
    LET all == pushed(Len(insightRules))
    IN  SubSeq(all, 1, Min(5, Len(all)))

(***************************************************************************)
(* The Ask Grain sheet (page.tsx 144-281).  A text is a string; trim and   *)
(* toLowerCase are computed on the texts the model draws.                  *)
(***************************************************************************)
defaultGreeting ==
    "Hi - I'm your AI coach. Ask me anything and I'll tailor it to your numbers."

\* String.prototype.trim on the drawn texts: blank texts become empty, padded
\* texts lose their padding, the others have no outer white space
trim(s) ==
    CASE s = "  " -> ""
      [] s = " How much should I invest? " -> "How much should I invest?"
      [] s = " Pay the card first. " -> "Pay the card first."
      [] s = " income 4000, leftover 735 " -> "income 4000, leftover 735"
      [] OTHER -> s

\* String.prototype.toLowerCase on the texts held by messages
toLowerCase(s) ==
    CASE s = defaultGreeting ->
             "hi - i'm your ai coach. ask me anything and i'll tailor it to your numbers."
      [] s = "How much should I invest?" -> "how much should i invest?"
      [] s = "Why this recommendation?" -> "why this recommendation?"
      [] s = "FHSA vs TFSA vs RRSP" -> "fhsa vs tfsa vs rrsp"
      [] s = "Help me prioritize payments" -> "help me prioritize payments"
      [] s = "Pay the card first." -> "pay the card first."
      [] OTHER -> s

\* the prompts of the two quick-prompt buttons (page.tsx 254, 263)
QuickPrompts == {"Why this recommendation?", "FHSA vs TFSA vs RRSP"}

\* the cta an insight card passes to setAskPreset (page.tsx 984, 1518)
InsightCtas == {"Help me prioritize payments"}

\* texts typed into the Textarea: nothing, blanks, and a padded question
TypedTexts == {"", "  ", " How much should I invest? "}

\* the context prop the sheet sends with every request
sheetContext == " income 4000, leftover 735 "

\* disabled={isSending || !chatInput.trim()} of the Send button
sendDisabled == isSending \/ trim(chatInput) = ""

\* the preset effect (page.tsx 162-167): the value of chatInput once the
\* effect has run for the given props and input
presetEffect(isOpen, preset, input) ==
    IF isOpen /\ preset # "" /\ trim(input) = "" THEN preset ELSE input

\* a mutation of historyForApi: the greeting is sent along
historyForApi_unfiltered(nextHistory) == nextHistory

\* nextHistory.filter(...) of handleSend (page.tsx 181-188): only index 0 can
\* be removed
historyForApi(nextHistory) ==
    IF /\ Len(nextHistory) > 0
       /\ nextHistory[1].role = "assistant"
       /\ toLowerCase(nextHistory[1].text) = toLowerCase(defaultGreeting)
    THEN Tail(nextHistory)
    ELSE nextHistory

\* a mutation of handleSendSync: setIsSending(true) left out
handleSendSync_neverBusy(input, history, sending) ==
    LET trimmed == trim(input)
        nextHistory == Append(history, [role |-> "user", text |-> trimmed])
    IN  IF trimmed = "" \/ sending
        THEN [accepted |-> FALSE, chatInput |-> input, chatHistory |-> history,
              isSending |-> sending, messages |-> <<>>]
        ELSE [accepted |-> TRUE, chatInput |-> "", chatHistory |-> nextHistory,
              isSending |-> FALSE, messages |-> historyForApi(nextHistory)]

\* handleSend up to its first await (page.tsx 169-196): whether the call is
\* accepted, the state it sets and the messages of the request it issues
handleSendSync(input, history, sending) ==
    LET trimmed == trim(input)
        nextHistory == Append(history, [role |-> "user", text |-> trimmed])
    IN  IF trimmed = "" \/ sending
        THEN [accepted |-> FALSE, chatInput |-> input, chatHistory |-> history,
              isSending |-> sending, messages |-> <<>>]
        ELSE [accepted |-> TRUE, chatInput |-> "", chatHistory |-> nextHistory,
              isSending |-> TRUE, messages |-> historyForApi(nextHistory)]

\* a request as issued: fetch("/api/ask-grain", {method: "POST", body}); the
\* status is 0 and the result empty until the route has answered; calls,
\* upstream and completion record the completion calls the route made for it,
\* the messages it passed and the value the call returned
NewRequest(from, body) ==
    [from |-> from, body |-> body, stage |-> "sent", status |-> 0,
     result |-> [kind |-> "none", text |-> ""], calls |-> 0, upstream |-> <<>>,
     completion |-> [kind |-> "none", text |-> ""]]

\* the body the sheet sends: JSON.stringify({messages, context})
SheetBody(messages) ==
    [kind |-> "json", messages |-> messages, context |-> sheetContext]

\* the text handleSend appends for a settled fetch (page.tsx 198-211): r is
\* the request, rejected tells whether fetch itself rejected
assistantText(r, rejected) ==
    LET ok == r.status >= 200 /\ r.status <= 299
        reply == IF r.result.kind = "reply" THEN r.result.text ELSE ""
        error == IF r.result.kind = "error" THEN r.result.text ELSE ""
        thrown == IF rejected THEN "Failed to fetch"
                  ELSE IF r.result.kind = "html"
                       THEN "Unexpected token '<', \"<html>\" is not valid JSON"
                  ELSE IF ~ok \/ reply = ""
                       THEN (IF error # "" THEN error
                             ELSE "Unable to reach Grain right now.")
                  ELSE ""
    IN  IF rejected \/ r.result.kind = "html" \/ ~ok \/ reply = ""
        THEN (IF thrown # "" THEN thrown ELSE "Give it a few seconds and try again.")
        ELSE reply

(***************************************************************************)
(* The route POST /api/ask-grain (route.ts 16-73) and getOpenAIClient.      *)
(***************************************************************************)
SYSTEM_PROMPT == "You are Grain, a Canada-first personal finance guide."

\* getOpenAIClient (lib/openai.ts 5-18): the client returned and the value
\* left in cachedClient; an unset key and an empty key are both ""
getOpenAIClient(cached, key) ==
    IF cached # "undefined" THEN [client |-> cached, cachedClient |-> cached]
    ELSE IF key = "" THEN [client |-> "null", cachedClient |-> "null"]
    ELSE [client |-> "OpenAI", cachedClient |-> "OpenAI"]

\* the messages passed to the completion call (route.ts 32-41)
chatMessages(messages, context) ==
    << [role |-> "system",
        content |-> IF context # ""
                    THEN SYSTEM_PROMPT \o "\n\nContext:\n" \o trim(context)
                    ELSE SYSTEM_PROMPT] >>
    \o [i \in 1..Len(messages) |->
           [role |-> messages[i].role, content |-> messages[i].text]]

\* NextResponse.json({error}, {status}) recorded on the request
respondError(r, status, message) ==
    [r EXCEPT !.stage = "responded", !.status = status,
              !.result = [kind |-> "error", text |-> message]]

\* NextResponse.json({reply}) recorded on the request
respondReply(r, reply) ==
    [r EXCEPT !.stage = "responded", !.status = 200,
              !.result = [kind |-> "reply", text |-> reply]]

\* a mutation of routeCatch: the completion call is made again
routeCatch_retry(r, thrown) ==
    IF r.stage = "calling" /\ r.calls < 2 THEN [r EXCEPT !.calls = @ + 1]
    ELSE respondError(r, 500, thrown.message)

\* the catch branch (route.ts 59-72); thrown is the value caught
routeCatch(r, thrown) ==
    respondError(r, 500,
        IF thrown.type = "Error" THEN thrown.message
        ELSE IF thrown.type = "string" THEN thrown.message
        ELSE "Grain ran into an unexpected issue while talking to OpenAI.")

\* what await req.json() and the destructuring and mapping of route.ts 29-41
\* throw for a body, or "" when they succeed
bodyError(body) ==
    CASE body.kind = "invalid" -> "Unexpected token 'h', \"hello\" is not valid JSON"
      [] body.kind = "null" ->
             "Cannot destructure property 'messages' of 'body' as it is null."
      [] body.kind = "bad-messages" -> "messages.map is not a function"
      [] OTHER -> ""

\* a mutation of routeStart: the credential is not looked at
routeStart_noClientCheck(r, client) ==
    IF bodyError(r.body) # ""
    THEN routeCatch(r, [type |-> "Error", message |-> bodyError(r.body)])
    ELSE [r EXCEPT !.stage = "calling", !.calls = @ + 1,
                   !.upstream = chatMessages(r.body.messages, r.body.context)]

\* POST up to the completion call (route.ts 17-47) for the client returned by
\* getOpenAIClient
routeStart(r, client) ==
    IF client = "null"
    THEN respondError(r, 503,
             "The AI coach is currently offline. Add an OPENAI_API_KEY environment variable to re-enable it.")
    ELSE IF bodyError(r.body) # ""
    THEN routeCatch(r, [type |-> "Error", message |-> bodyError(r.body)])
    ELSE [r EXCEPT !.stage = "calling", !.calls = @ + 1,
                   !.upstream = chatMessages(r.body.messages, r.body.context)]

\* outcomes of client.chat.completions.create: an Error thrown, or a
\* completion without choices, with null content, or with a content text
Thrown(message) == [kind |-> "thrown", text |-> message]

NoChoices == [kind |-> "no-choices", text |-> ""]

NullContent == [kind |-> "null-content", text |-> ""]

Content(text) == [kind |-> "content", text |-> text]

UpstreamOutcomes ==
    {Thrown("Connection error."), NoChoices, NullContent, Content("  "),
     Content(" Pay the card first. ")}

\* a mutation of replyOf: the content is not trimmed
replyOf_noTrim(completion) ==
    IF completion.kind = "content" THEN completion.text ELSE ""

\* completion.choices[0]?.message?.content?.trim() (route.ts 49); undefined
\* is modelled by "", the other falsy value
replyOf(completion) ==
    IF completion.kind = "content" THEN trim(completion.text) ELSE ""

\* POST after the completion call has settled (route.ts 43-72)
routeFinish(r, outcome) ==
    LET settled == [r EXCEPT !.completion = outcome]
    IN  IF outcome.kind = "thrown"
        THEN routeCatch(settled, [type |-> "Error", message |-> outcome.text])
        ELSE IF replyOf(outcome) = ""
        THEN respondError(settled, 500,
                          "Grain could not craft a reply. Please try again.")
        ELSE respondReply(settled, replyOf(outcome))

\* request bodies a caller of the route can send: not JSON, the JSON null,
\* messages that is not an array, an object without messages, and one
\* message without context
ExternalBodies ==
    {[kind |-> k, messages |-> <<>>, context |-> ""] :
        k \in {"invalid", "null", "bad-messages", "no-messages"}}
    \cup {[kind |-> "json",
           messages |-> <<[role |-> "user", text |-> "How much should I invest?"]>>,
           context |-> ""]}

\* values of OPENAI_API_KEY in a deployment: unset, or a key
ApiKeys == {"", "sk-key"}

(***************************************************************************)
(* Inputs the user can produce.                                            *)
(***************************************************************************)
\* the value of an <input type="number"> after a keystroke: the empty string,
\* a decimal numeral (given by its value), or a numeral too large for a double
RawEmpty == [kind |-> "empty", v |-> 0]

RawHuge == [kind |-> "huge", v |-> 0]

RawNum(n) == [kind |-> "num", v |-> n]

\* numerals typed into a money field (cents): 0.95 above the default spend
\* total, a negative amount, and a small whole amount
TypedAmounts == {326595, -2500, 700}

\* numerals typed into an APR field (1/100 %): at, just above and well above
\* the 10 % threshold
TypedAprs == {1000, 1001, 1200}

MoneyFields == {"income", "rent", "utilities", "insurance", "transport",
                "groceries", "dining", "subscriptions", "other",
                "ccDebt", "studentLoan"}

AprFields == {"ccApr", "studentApr"}

NumberFields == MoneyFields \cup AprFields

\* the step prop of each LabeledNumber of the dashboard (page.tsx 1416-1468):
\* the default 10, 0.5 for the card APR, 0.1 for the student APR
stepOf(f) == IF f = "ccApr" THEN 50 ELSE IF f = "studentApr" THEN 10 ELSE 1000

RawInputs(f) ==
    {RawEmpty, RawHuge}
        \cup {RawNum(n) : n \in IF f \in AprFields THEN TypedAprs ELSE TypedAmounts}

\* the SelectItems of the risk profile Select (page.tsx 1454-1457)
RiskOptions == {"conservative", "balanced", "growth", "yolo"}

\* positions of the crypto Slider: min 0, max 10, step 1 (page.tsx 1486)
CryptoSliderValues == {100 * k : k \in 0..10}

\* positions of the what-if Slider: min 0, max 1000, step 25 (page.tsx 1270)
WhatIfSliderValues == {2500 * k : k \in 0..40}

(***************************************************************************)
(* GrainDashboard: state and handlers.                                     *)
(***************************************************************************)
valOf(f) ==
    CASE f = "income" -> income
      [] f = "rent" -> rent
      [] f = "utilities" -> utilities
      [] f = "insurance" -> insurance
      [] f = "transport" -> transport
      [] f = "groceries" -> groceries
      [] f = "dining" -> dining
      [] f = "subscriptions" -> subscriptions
      [] f = "other" -> other
      [] f = "ccDebt" -> ccDebt
      [] f = "ccApr" -> ccApr
      [] f = "studentLoan" -> studentLoan
      [] f = "studentApr" -> studentApr

\* setVal of the LabeledNumber bound to field f: the matching useState setter
setVal(f, n) ==
    /\ income' = IF f = "income" THEN n ELSE income
    /\ rent' = IF f = "rent" THEN n ELSE rent
    /\ utilities' = IF f = "utilities" THEN n ELSE utilities
    /\ insurance' = IF f = "insurance" THEN n ELSE insurance
    /\ transport' = IF f = "transport" THEN n ELSE transport
    /\ groceries' = IF f = "groceries" THEN n ELSE groceries
    /\ dining' = IF f = "dining" THEN n ELSE dining
    /\ subscriptions' = IF f = "subscriptions" THEN n ELSE subscriptions
    /\ other' = IF f = "other" THEN n ELSE other
    /\ ccDebt' = IF f = "ccDebt" THEN n ELSE ccDebt
    /\ ccApr' = IF f = "ccApr" THEN n ELSE ccApr
    /\ studentLoan' = IF f = "studentLoan" THEN n ELSE studentLoan
    /\ studentApr' = IF f = "studentApr" THEN n ELSE studentApr

\* const n = raw === '' ? 0 : Number(raw); Number.isFinite(n) ? n : 0
parseRaw(raw) ==
    IF raw.kind = "empty" THEN 0
    ELSE IF raw.kind = "huge" THEN 0      \* Number(raw) is Infinity
    ELSE raw.v

\* the state of a freshly mounted dashboard (page.tsx 864-881)
DashboardDefaults ==
    /\ income = 400000
    /\ rent = 200000
    /\ utilities = 18000
    /\ insurance = 12000
    /\ transport = 16000
    /\ groceries = 42000
    /\ dining = 22000
    /\ subscriptions = 4500
    /\ other = 12000
    /\ ccDebt = 120000
    /\ ccApr = 1999
    /\ studentLoan = 800000
    /\ studentApr = 520
    /\ risk = "balanced"
    /\ cryptoPct = 0
    /\ whatIf = 0

(***************************************************************************)
(* The snapshot under STORAGE_KEY (page.tsx 23, 359-367, 887-911).  A       *)
(* JavaScript value is modelled by its typeof, its number and its string.  *)
(***************************************************************************)
JSNumber(n) == [type |-> "number", num |-> n, str |-> ""]

JSString(s) == [type |-> "string", num |-> 0, str |-> s]

JSUndefined == [type |-> "undefined", num |-> 0, str |-> ""]

\* typeof null is "object"
JSNull == [type |-> "object", num |-> 0, str |-> ""]

\* the properties of the seed object written by saveSeed
SeedStringFields == {"province", "primaryGoal", "risk"}

SeedFields == {"age", "cryptoPct"} \cup NumberFields \cup SeedStringFields

\* the state of a freshly mounted wizard (page.tsx 335-352); age in years
WizardDefaults ==
    [province |-> "Ontario", age |-> 27, income |-> 400000, rent |-> 200000,
     utilities |-> 18000, insurance |-> 12000, transport |-> 16000,
     groceries |-> 42000, dining |-> 22000, subscriptions |-> 4500,
     other |-> 12000, ccDebt |-> 120000, ccApr |-> 1999,
     studentLoan |-> 800000, studentApr |-> 520,
     primaryGoal |-> "Condo Down Payment", risk |-> "balanced", cryptoPct |-> 0]

\* the values of a freshly mounted dashboard (page.tsx 863-879)
DashboardDefaultValues ==
    [income |-> 400000, rent |-> 200000, utilities |-> 18000,
     insurance |-> 12000, transport |-> 16000, groceries |-> 42000,
     dining |-> 22000, subscriptions |-> 4500, other |-> 12000,
     ccDebt |-> 120000, ccApr |-> 1999, studentLoan |-> 800000,
     studentApr |-> 520, risk |-> "balanced", cryptoPct |-> 0, whatIf |-> 0]

\* the stored item: absent, the empty string, a text that is not JSON, the
\* JSON null, a JSON number, or a JSON object given by its properties
NoFields == [f \in SeedFields |-> JSUndefined]

StoredItem(kind) == [kind |-> kind, fields |-> NoFields]

StoredObject(fields) == [kind |-> "object", fields |-> fields]

\* JSON.parse(JSON.stringify(seed)) for the seed of wizard state w: a finite
\* number is stored as that number, a string as that string
toStored(w) ==
    [f \in SeedFields |->
        IF f \in SeedStringFields THEN JSString(w[f]) ELSE JSNumber(w[f])]

\* a snapshot left by an earlier session, every value off its default
EarlierSeed ==
    StoredObject(toStored(
        [province |-> "Quebec", age |-> 41, income |-> 612550, rent |-> 150000,
         utilities |-> 9000, insurance |-> 0, transport |-> 8000,
         groceries |-> 61000, dining |-> 5000, subscriptions |-> 1299,
         other |-> 30000, ccDebt |-> 0, ccApr |-> 2499, studentLoan |-> 0,
         studentApr |-> 0, primaryGoal |-> "Travel Fund", risk |-> "yolo",
         cryptoPct |-> 500]))

\* a partially shaped snapshot: some properties missing, some wrongly typed
\* (risk a number, cryptoPct a string, ccDebt null), some well typed
PartialSeed ==
    StoredObject([f \in SeedFields |->
        CASE f = "income" -> JSNumber(520050)
          [] f = "dining" -> JSNumber(0)
          [] f = "risk" -> JSNumber(3)
          [] f = "cryptoPct" -> JSString("5")
          [] f = "rent" -> JSString("1500")
          [] f = "ccDebt" -> JSNull
          [] f = "studentApr" -> JSNumber(675)
          [] OTHER -> JSUndefined])

\* a snapshot with a well-typed risk and nothing else usable
RiskOnlySeed ==
    StoredObject([f \in SeedFields |->
        IF f = "risk" THEN JSString("growth")
        ELSE IF f = "income" THEN JSString("4000") ELSE JSUndefined])

\* items drawn for the start of a session
StoredSnapshots ==
    {StoredItem("absent"), StoredItem("empty"), StoredItem("unparsable"),
     StoredItem("null"), StoredItem("number"), EarlierSeed, PartialSeed,
     RiskOnlySeed}

\* localStorage works, refuses writes (setItem throws), or refuses every
\* access (getItem and setItem throw)
StorageEnvs == {"ok", "full", "denied"}

\* a mutation of seedNumber: any defined property is taken
seedNumber_untyped(fields, f) ==
    IF fields[f].type # "undefined" THEN fields[f].num
    ELSE DashboardDefaultValues[f]

\* if (typeof s.f === 'number') setF(s.f): the value of field f after the load
seedNumber(fields, f) ==
    IF fields[f].type = "number" THEN fields[f].num
    ELSE DashboardDefaultValues[f]

\* the per-field merge of page.tsx 892-907 into the default state
mergeSeed(fields) ==
    [income |-> seedNumber(fields, "income"),
     rent |-> seedNumber(fields, "rent"),
     utilities |-> seedNumber(fields, "utilities"),
     insurance |-> seedNumber(fields, "insurance"),
     transport |-> seedNumber(fields, "transport"),
     groceries |-> seedNumber(fields, "groceries"),
     dining |-> seedNumber(fields, "dining"),
     subscriptions |-> seedNumber(fields, "subscriptions"),
     other |-> seedNumber(fields, "other"),
     ccDebt |-> seedNumber(fields, "ccDebt"),
     ccApr |-> seedNumber(fields, "ccApr"),
     studentLoan |-> seedNumber(fields, "studentLoan"),
     studentApr |-> seedNumber(fields, "studentApr"),
     risk |-> IF fields["risk"].type = "string" THEN fields["risk"].str
              ELSE DashboardDefaultValues.risk,
     cryptoPct |-> seedNumber(fields, "cryptoPct"),
     whatIf |-> DashboardDefaultValues.whatIf]

\* the seed load effect (page.tsx 887-911) on a freshly mounted dashboard:
\* the state it leaves
loadSeed(item, env) ==
    IF env = "denied" THEN DashboardDefaultValues          \* getItem throws
    ELSE IF item.kind \in {"absent", "empty"} THEN DashboardDefaultValues
    ELSE IF item.kind = "unparsable" THEN DashboardDefaultValues  \* parse throws
    ELSE IF item.kind = "null" THEN DashboardDefaultValues  \* s.income throws
    ELSE mergeSeed(item.fields)

\* saveSeed (page.tsx 359-367): the item stored afterwards; a throwing
\* setItem is swallowed
saveSeed(w, item, env) ==
    IF env = "ok" THEN StoredObject(toStored(w)) ELSE item

\* the dashboard state set to the values of d
setDashboard(d) ==
    /\ income' = d.income
    /\ rent' = d.rent
    /\ utilities' = d.utilities
    /\ insurance' = d.insurance
    /\ transport' = d.transport
    /\ groceries' = d.groceries
    /\ dining' = d.dining
    /\ subscriptions' = d.subscriptions
    /\ other' = d.other
    /\ ccDebt' = d.ccDebt
    /\ ccApr' = d.ccApr
    /\ studentLoan' = d.studentLoan
    /\ studentApr' = d.studentApr
    /\ risk' = d.risk
    /\ cryptoPct' = d.cryptoPct
    /\ whatIf' = d.whatIf

\* the dashboard shown with nothing stored and a working localStorage
NoSnapshot ==
    /\ mode = "dashboard"
    /\ step = 0
    /\ wizard = WizardDefaults
    /\ storage = StoredItem("absent")
    /\ storageEnv = "ok"

NoCall ==
    /\ args = <<>>
    /\ out = <<>>
    /\ pc = "idle"

\* the sheet as mounted and the server as started, with no request made
NoSession ==
    /\ open = FALSE
    /\ presetMsg = ""
    /\ chatInput = ""
    /\ chatHistory = <<[role |-> "assistant", text |-> defaultGreeting]>>
    /\ isSending = FALSE
    /\ requests = <<>>
    /\ apiKey = ""
    /\ cachedClient = "undefined"

Init ==
    /\ DashboardDefaults
    /\ edits = 0
    /\ NoCall
    /\ NoSession
    /\ NoSnapshot

\* LabeledNumber.onChange (page.tsx 60-64)
OnChange(f, raw) ==
    /\ edits < MaxEdits
    /\ setVal(f, parseRaw(raw))
    /\ edits' = edits + 1
    /\ UNCHANGED <<risk, cryptoPct, whatIf, callVars, sessionVars>>

\* the "-" button of a LabeledNumber (page.tsx 80)
ClickMinus(f) ==
    /\ edits < MaxEdits
    /\ setVal(f, Max(0, RoundWhole(valOf(f) - stepOf(f))))
    /\ edits' = edits + 1
    /\ UNCHANGED <<risk, cryptoPct, whatIf, callVars, sessionVars>>

\* the "+" button of a LabeledNumber (page.tsx 81)
ClickPlus(f) ==
    /\ edits < MaxEdits
    /\ setVal(f, Max(0, RoundWhole(valOf(f) + stepOf(f))))
    /\ edits' = edits + 1
    /\ UNCHANGED <<risk, cryptoPct, whatIf, callVars, sessionVars>>

\* <Select value={risk} onValueChange={setRisk}> (page.tsx 1451)
SelectRisk(r) ==
    /\ edits < MaxEdits
    /\ risk' = r
    /\ edits' = edits + 1
    /\ UNCHANGED <<income, rent, utilities, insurance, transport, groceries,
                   dining, subscriptions, other, ccDebt, ccApr, studentLoan,
                   studentApr, cryptoPct, whatIf, callVars, sessionVars>>

\* the crypto Slider: onValueChange={(v) => setCryptoPct(v[0])} (page.tsx 1486)
SlideCrypto(v) ==
    /\ edits < MaxEdits
    /\ cryptoPct' = v
    /\ edits' = edits + 1
    /\ UNCHANGED <<income, rent, utilities, insurance, transport, groceries,
                   dining, subscriptions, other, ccDebt, ccApr, studentLoan,
                   studentApr, risk, whatIf, callVars, sessionVars>>

\* the what-if Slider: onValueChange={(v) => setWhatIf(v[0])} (page.tsx 1270)
SlideWhatIf(v) ==
    /\ edits < MaxEdits
    /\ whatIf' = v
    /\ edits' = edits + 1
    /\ UNCHANGED <<income, rent, utilities, insurance, transport, groceries,
                   dining, subscriptions, other, ccDebt, ccApr, studentLoan,
                   studentApr, risk, cryptoPct, callVars, sessionVars>>

Next ==
    \/ \E f \in NumberFields : \E raw \in RawInputs(f) : OnChange(f, raw)
    \/ \E f \in NumberFields : ClickMinus(f)
    \/ \E f \in NumberFields : ClickPlus(f)
    \/ \E r \in RiskOptions : SelectRisk(r)
    \/ \E v \in CryptoSliderValues : SlideCrypto(v)
    \/ \E v \in WhatIfSliderValues : SlideWhatIf(v)

Spec == Init /\ [][Next]_vars

(***************************************************************************)
(* The allocation memo applied to drawn dashboard states.                  *)
(***************************************************************************)
\* leftovers drawn: every cent amount and every whole-dollar amount up to the
\* bound, and the leftover of the default inputs
AllocLeftovers ==
    (0..MaxLeftoverCents) \cup {100 * k : k \in 0..MaxLeftoverCents} \cup {73500}

\* a dashboard whose income, risk profile and debts hold drawn values (typed by
\* the user or restored from the snapshot); the expenses keep their defaults,
\* which sum to 3265 dollars
InitAlloc ==
    /\ income \in {326500 + lo : lo \in AllocLeftovers}
    /\ rent = 200000
    /\ utilities = 18000
    /\ insurance = 12000
    /\ transport = 16000
    /\ groceries = 42000
    /\ dining = 22000
    /\ subscriptions = 4500
    /\ other = 12000
    /\ ccDebt \in {0, 120000}
    /\ ccApr \in TypedAprs \cup {1999}
    /\ studentLoan \in {0, 800000}
    /\ studentApr \in {520, 1200}
    /\ risk \in RiskOptions
    /\ cryptoPct = 0
    /\ whatIf = 0
    /\ edits = 0
    /\ args = <<>>
    /\ out = <<>>
    /\ pc = "input"
    /\ NoSession
    /\ NoSnapshot

\* one render: the memo of page.tsx 922-930 is evaluated on the current state
RenderAllocation ==
    /\ pc = "input"
    /\ out' = allocation(leftover, risk, ccDebt, ccApr)
    /\ pc' = "done"
    /\ UNCHANGED <<dashVars, edits, args, sessionVars>>

NextAlloc == RenderAllocation

SpecAlloc == InitAlloc /\ [][NextAlloc]_vars

(***************************************************************************)
(* investBreakdown applied to drawn arguments.                             *)
(***************************************************************************)
\* totals drawn (cents): whole dollars and single cents up to the bound, and
\* two amounts of the size the default inputs produce
BreakdownTotals ==
    {100 * k : k \in 0..MaxInvestDollars} \cup (0..(4 * MaxInvestDollars))
        \cup {22100, 58800}

\* crypto percentages drawn (1/100 %): -1 % to 12 % in steps of 0.5 %
BreakdownPcts == {50 * k : k \in -2..24}

InitBreakdown ==
    /\ DashboardDefaults
    /\ edits = 0
    /\ args \in {<<t, p>> : t \in BreakdownTotals, p \in BreakdownPcts}
    /\ out = <<>>
    /\ pc = "input"
    /\ NoSession
    /\ NoSnapshot

CallInvestBreakdown ==
    /\ pc = "input"
    /\ out' = investBreakdown(args[1], args[2])
    /\ pc' = "done"
    /\ UNCHANGED <<dashVars, edits, args, sessionVars>>

NextBreakdown == CallInvestBreakdown

SpecBreakdown == InitBreakdown /\ [][NextBreakdown]_vars

(***************************************************************************)
(* monthsToGoal applied to drawn arguments.                                *)
(***************************************************************************)
GoalTargets == {0, 300000, 2500000, 12345}

GoalSaved == {-5000, 0, 120000, 820000, 3000000}

\* monthly rates drawn (cents): negative, zero, below one dollar, a few dollars,
\* and the default plan with and without a 300 dollar boost
GoalRates == {50 * k : k \in -2..MaxRateSteps} \cup {73500, 103500}

InitGoal ==
    /\ DashboardDefaults
    /\ edits = 0
    /\ args \in {<<t, s, m>> : t \in GoalTargets, s \in GoalSaved, m \in GoalRates}
    /\ out = <<>>
    /\ pc = "input"
    /\ NoSession
    /\ NoSnapshot

CallMonthsToGoal ==
    /\ pc = "input"
    /\ out' = monthsToGoal(args[1], args[2], args[3])
    /\ pc' = "done"
    /\ UNCHANGED <<dashVars, edits, args, sessionVars>>

NextGoal == CallMonthsToGoal

SpecGoal == InitGoal /\ [][NextGoal]_vars

(***************************************************************************)
(* The insights memo applied to drawn dashboard states.                    *)
(***************************************************************************)
\* incomes drawn (cents): none, half a dollar, the default, and one high
\* enough for the plan to reach 500 dollars a month
InsightIncomes == {0, 50, 400000, 1000000}

\* rents drawn (cents): none, amounts around 35 cents, amounts around 35 % of
\* the default income, and the default
InsightRents == {0, 20, 36, 140000, 140001, 200000}

\* a dashboard whose inputs hold drawn values (typed by the user or restored
\* from the snapshot); the essentials other than rent are all at their
\* defaults or all zero
InitInsights ==
    /\ income \in InsightIncomes
    /\ rent \in InsightRents
    /\ \E essentials \in BOOLEAN :
          /\ utilities = IF essentials THEN 18000 ELSE 0
          /\ insurance = IF essentials THEN 12000 ELSE 0
          /\ transport = IF essentials THEN 16000 ELSE 0
          /\ groceries = IF essentials THEN 42000 ELSE 0
    /\ dining \in {20000, 22000}
    /\ subscriptions \in {4000, 4500}
    /\ other = 12000
    /\ ccDebt \in {0, 120000}
    /\ ccApr \in {1499, 1500, 1999}
    /\ studentLoan \in {0, 800000}
    /\ studentApr \in {520, 1600}
    /\ risk = "balanced"
    /\ cryptoPct = 0
    /\ whatIf = 0
    /\ edits = 0
    /\ args = <<>>
    /\ out = <<>>
    /\ pc = "input"
    /\ NoSession
    /\ NoSnapshot

\* one render: the memo of page.tsx 980-990 is evaluated on the current state
RenderInsights ==
    /\ pc = "input"
    /\ out' = insights
    /\ pc' = "done"
    /\ UNCHANGED <<dashVars, edits, args, sessionVars>>

NextInsights == RenderInsights

SpecInsights == InitInsights /\ [][NextInsights]_vars

(***************************************************************************)
(* One Ask Grain sheet, the network and the route.                         *)
(***************************************************************************)
InitChat ==
    /\ DashboardDefaults
    /\ edits = 0
    /\ NoCall
    /\ open = FALSE
    /\ presetMsg = ""
    /\ chatInput = ""
    /\ chatHistory = <<[role |-> "assistant", text |-> defaultGreeting]>>
    /\ isSending = FALSE
    /\ requests = <<>>
    /\ apiKey \in ApiKeys
    /\ cachedClient = "undefined"
    /\ NoSnapshot

\* an Ask Grain button: setChatOpen(true) (page.tsx 1068), then the preset
\* effect
OpenSheet ==
    /\ ~open
    /\ open' = TRUE
    /\ chatInput' = presetEffect(TRUE, presetMsg, chatInput)
    /\ UNCHANGED <<presetMsg, chatHistory, isSending, requests, serverVars,
                   appVars, dashVars, edits, callVars>>

\* the sheet dismissed: onOpenChange(false) (page.tsx 223)
CloseSheet ==
    /\ open
    /\ open' = FALSE
    /\ UNCHANGED <<presetMsg, chatInput, chatHistory, isSending, requests,
                   serverVars, appVars, dashVars, edits, callVars>>

\* an insight card: setAskPreset(it.cta || it.title); setChatOpen(true)
\* (page.tsx 1518), then the preset effect; the cards are behind the open
\* sheet
AskInsight(cta) ==
    /\ ~open
    /\ presetMsg' = cta
    /\ open' = TRUE
    /\ chatInput' = presetEffect(TRUE, cta, chatInput)
    /\ UNCHANGED <<chatHistory, isSending, requests, serverVars, appVars, dashVars,
                   edits, callVars>>

\* the Textarea: onChange sets chatInput (page.tsx 242-247), then the preset
\* effect; the Textarea is disabled while sending
TypeInput(text) ==
    /\ open
    /\ ~isSending
    /\ chatInput' = presetEffect(open, presetMsg, text)
    /\ UNCHANGED <<open, presetMsg, chatHistory, isSending, requests,
                   serverVars, appVars, dashVars, edits, callVars>>

\* a quick-prompt button: applyQuickPrompt (page.tsx 217-220), disabled while
\* sending
ClickQuickPrompt(prompt) ==
    /\ open
    /\ ~isSending
    /\ chatInput' = presetEffect(open, presetMsg, prompt)
    /\ UNCHANGED <<open, presetMsg, chatHistory, isSending, requests,
                   serverVars, appVars, dashVars, edits, callVars>>

\* the Send button, when not disabled: handleSend up to the fetch it issues
\* (page.tsx 169-196), then the preset effect on the emptied input
ClickSend ==
    /\ open
    /\ ~sendDisabled
    /\ Len(requests) < MaxPosts
    /\ LET sent == handleSendSync(chatInput, chatHistory, isSending)
       IN  /\ chatHistory' = sent.chatHistory
           /\ isSending' = sent.isSending
           /\ chatInput' = presetEffect(open, presetMsg, sent.chatInput)
           /\ requests' = IF sent.accepted
                          THEN Append(requests,
                                      NewRequest("sheet", SheetBody(sent.messages)))
                          ELSE requests
    /\ UNCHANGED <<open, presetMsg, serverVars, appVars, dashVars, edits, callVars>>

\* the route receives request i and runs up to the completion call or to an
\* early response (route.ts 17-47)
RouteHandles(i) ==
    /\ requests[i].stage = "sent"
    /\ LET got == getOpenAIClient(cachedClient, apiKey)
       IN  /\ cachedClient' = got.cachedClient
           /\ requests' = [requests EXCEPT ![i] = routeStart(@, got.client)]
    /\ UNCHANGED <<chatVars, apiKey, appVars, dashVars, edits, callVars>>

\* the completion call of request i settles and the route answers
\* (route.ts 43-72)
CompletionSettles(i, outcome) ==
    /\ requests[i].stage = "calling"
    /\ requests' = [requests EXCEPT ![i] = routeFinish(@, outcome)]
    /\ UNCHANGED <<chatVars, serverVars, appVars, dashVars, edits, callVars>>

\* request i is answered on the way by a gateway with a page that is not JSON
GatewayAnswers(i) ==
    /\ requests[i].stage = "sent"
    /\ requests' = [requests EXCEPT ![i].stage = "responded", ![i].status = 502,
                                    ![i].result = [kind |-> "html", text |-> "<html>"]]
    /\ UNCHANGED <<chatVars, serverVars, appVars, dashVars, edits, callVars>>

\* a mutation of FetchSettles: the finally block is missing, so a failed
\* request leaves isSending set
FetchSettles_noFinally(i) ==
    /\ requests[i].stage \in {"sent", "responded"}
    /\ requests' = [requests EXCEPT ![i].stage = "closed"]
    /\ IF requests[i].from = "sheet"
       THEN LET text == assistantText(requests[i], requests[i].stage = "sent")
            IN  /\ chatHistory' =
                       Append(chatHistory, [role |-> "assistant", text |-> text])
                /\ isSending' = (requests[i].result.kind # "reply"
                                    \/ requests[i].stage = "sent")
       ELSE UNCHANGED <<chatHistory, isSending>>
    /\ UNCHANGED <<open, presetMsg, chatInput, serverVars, appVars, dashVars, edits,
                   callVars>>

\* the fetch of request i settles at its caller: it rejects (the request was
\* not delivered) or resolves with the response; for the sheet the rest of
\* handleSend runs (page.tsx 198-213)
FetchSettles(i) ==
    /\ requests[i].stage \in {"sent", "responded"}
    /\ requests' = [requests EXCEPT ![i].stage = "closed"]
    /\ IF requests[i].from = "sheet"
       THEN /\ chatHistory' =
                   Append(chatHistory,
                          [role |-> "assistant",
                           text |-> assistantText(requests[i],
                                                  requests[i].stage = "sent")])
            /\ isSending' = FALSE
       ELSE UNCHANGED <<chatHistory, isSending>>
    /\ UNCHANGED <<open, presetMsg, chatInput, serverVars, appVars, dashVars, edits,
                   callVars>>

NextChat ==
    \/ OpenSheet
    \/ CloseSheet
    \/ \E cta \in InsightCtas : AskInsight(cta)
    \/ \E text \in TypedTexts : TypeInput(text)
    \/ \E prompt \in QuickPrompts : ClickQuickPrompt(prompt)
    \/ ClickSend
    \/ \E i \in 1..Len(requests) : RouteHandles(i)
    \/ \E i \in 1..Len(requests), outcome \in UpstreamOutcomes :
          CompletionSettles(i, outcome)
    \/ \E i \in 1..Len(requests) : GatewayAnswers(i)
    \/ \E i \in 1..Len(requests) : FetchSettles(i)

SpecChat == InitChat /\ [][NextChat]_vars

\* the chat under the assumption that awaited calls settle: the completion
\* call awaited by the route (route.ts 43) and the fetch awaited by handleSend
\* (page.tsx 190) do not stay pending forever
FairSpecChat ==
    /\ SpecChat
    /\ WF_vars(\E i \in 1..Len(requests), outcome \in UpstreamOutcomes :
                  CompletionSettles(i, outcome))
    /\ WF_vars(\E i \in 1..Len(requests) : FetchSettles(i))

(***************************************************************************)
(* The route under requests of any caller.                                 *)
(***************************************************************************)
\* a caller posts a body to the route
ExternalPost(body) ==
    /\ Len(requests) < MaxPosts
    /\ requests' = Append(requests, NewRequest("other", body))
    /\ UNCHANGED <<chatVars, serverVars, appVars, dashVars, edits, callVars>>

NextRoute ==
    \/ \E body \in ExternalBodies : ExternalPost(body)
    \/ \E i \in 1..Len(requests) : RouteHandles(i)
    \/ \E i \in 1..Len(requests), outcome \in UpstreamOutcomes :
          CompletionSettles(i, outcome)
    \/ \E i \in 1..Len(requests) : FetchSettles(i)

SpecRoute == InitChat /\ [][NextRoute]_vars

(***************************************************************************)
(* The app shell: wizard, snapshot and dashboard (page.tsx 315-326).       *)
(***************************************************************************)
\* the index in `steps` of the step that shows field f (page.tsx 371-660)
stepOfField(f) ==
    CASE f \in {"province", "age"} -> 1
      [] f = "income" -> 2
      [] f \in {"rent", "utilities", "insurance", "subscriptions"} -> 3
      [] f \in {"transport", "groceries", "dining", "other"} -> 4
      [] f \in AprFields \cup {"ccDebt", "studentLoan"} -> 5
      [] f = "primaryGoal" -> 6
      [] f \in {"risk", "cryptoPct"} -> 7

\* the index of the last step, "finish": steps.length - 1
LastStep == 9

\* numerals typed into a wizard field: nothing, or one amount with cents
WizardRawInputs(f) ==
    {RawEmpty, RawNum(IF f \in AprFields THEN 1250 ELSE 512345)}

\* the wizard fields whose LabeledNumber is operated: the income, one expense
\* and one APR (all thirteen are the same component)
WizardEditedFields == {"income", "dining", "ccApr"}

\* the risk cards of the wizard (page.tsx 575-579)
WizardRiskOptions == {"conservative", "balanced", "yolo"}

\* positions drawn for the wizard's crypto Slider (min 0, max 10, step 1)
WizardCryptoValues == {0, 500, 1000}

\* GrainApp starts in onboarding with a fresh wizard; the stored item and the
\* behaviour of localStorage are those of the browser
InitSeed ==
    /\ DashboardDefaults
    /\ edits = 0
    /\ NoCall
    /\ NoSession
    /\ mode = "onboarding"
    /\ step = 0
    /\ wizard = WizardDefaults
    /\ storage \in StoredSnapshots
    /\ storageEnv \in StorageEnvs

\* what a wizard handler leaves alone besides the wizard state
WizardFrame ==
    UNCHANGED <<mode, storage, storageEnv, dashVars, callVars, chatVars,
                requests, serverVars>>

\* "Get started" and "Continue" (page.tsx 411, 811)
WizardContinue ==
    /\ mode = "onboarding"
    /\ step < LastStep
    /\ step' = step + 1
    /\ UNCHANGED <<wizard, edits>>
    /\ WizardFrame

\* "Back", disabled on the first step (page.tsx 791-792)
WizardBack ==
    /\ mode = "onboarding"
    /\ step > 0
    /\ step' = step - 1
    /\ UNCHANGED <<wizard, edits>>
    /\ WizardFrame

\* a wizard control of field f set to value v
WizardSet(f, v) ==
    /\ mode = "onboarding"
    /\ step = stepOfField(f)
    /\ edits < MaxWizardEdits
    /\ wizard' = [wizard EXCEPT ![f] = v]
    /\ edits' = edits + 1
    /\ UNCHANGED step
    /\ WizardFrame

\* LabeledNumber.onChange in the wizard (page.tsx 60-64, 459-530)
WizardOnChange(f, raw) == WizardSet(f, parseRaw(raw))

\* the "-" and "+" buttons of a wizard LabeledNumber (page.tsx 80, 86)
WizardClickMinus(f) == WizardSet(f, Max(0, RoundWhole(wizard[f] - stepOf(f))))

WizardClickPlus(f) == WizardSet(f, Max(0, RoundWhole(wizard[f] + stepOf(f))))

\* the province Select (page.tsx 429)
WizardSelectProvince(p) == WizardSet("province", p)

\* the age Input: setAge(Number(e.target.value) || 0) (page.tsx 441)
WizardTypeAge(raw) == WizardSet("age", parseRaw(raw))

\* a goal button (page.tsx 551)
WizardPickGoal(g) == WizardSet("primaryGoal", g)

\* a risk card (page.tsx 586); the three cards are not counted as edits
WizardSelectRisk(r) ==
    /\ mode = "onboarding"
    /\ step = stepOfField("risk")
    /\ wizard' = [wizard EXCEPT !.risk = r]
    /\ UNCHANGED <<step, edits>>
    /\ WizardFrame

\* the crypto Slider, shown for yolo only (page.tsx 591-597)
WizardSlideCrypto(v) ==
    /\ wizard.risk = "yolo"
    /\ WizardSet("cryptoPct", v)

\* "Finish", "Skip for now" and "Go to dashboard" (page.tsx 657-658,
\* 806-809): saveSeed(); onComplete(); the dashboard mounts with its defaults
\* and its seed load effect runs
Finish ==
    /\ mode = "onboarding"
    /\ step = LastStep
    /\ storage' = saveSeed(wizard, storage, storageEnv)
    /\ mode' = "dashboard"
    /\ setDashboard(loadSeed(storage', storageEnv))
    /\ UNCHANGED <<step, wizard, storageEnv, edits, callVars, chatVars,
                   requests, serverVars>>

\* "Restart Onboarding" (page.tsx 322, 1067): a fresh wizard mounts
RestartOnboarding ==
    /\ mode = "dashboard"
    /\ mode' = "onboarding"
    /\ step' = 0
    /\ wizard' = WizardDefaults
    /\ setDashboard(DashboardDefaultValues)
    /\ UNCHANGED <<storage, storageEnv, edits, callVars, chatVars, requests,
                   serverVars>>

NextSeed ==
    \/ WizardContinue
    \/ WizardBack
    \/ \E f \in WizardEditedFields :
          \E raw \in WizardRawInputs(f) : WizardOnChange(f, raw)
    \/ \E f \in WizardEditedFields : WizardClickMinus(f)
    \/ \E f \in WizardEditedFields : WizardClickPlus(f)
    \/ \E p \in {"Quebec"} : WizardSelectProvince(p)
    \/ \E raw \in {RawEmpty, RawNum(31)} : WizardTypeAge(raw)
    \/ \E g \in {"Travel Fund"} : WizardPickGoal(g)
    \/ \E r \in WizardRiskOptions : WizardSelectRisk(r)
    \/ \E v \in WizardCryptoValues : WizardSlideCrypto(v)
    \/ Finish
    \/ RestartOnboarding

SpecSeed == InitSeed /\ [][NextSeed]_vars

(***************************************************************************)
(* The dashboard rendered and the what-if slider moved on drawn states.    *)
(***************************************************************************)
\* incomes drawn (cents): none, 0.95 above the default spend total, the
\* default, and enough for every goal projection to shorten
WhatIfIncomes == {0, 326595, 400000, 1000000}

\* the base plan one render of GrainDashboard shows (page.tsx 913-938,
\* 975-990, 1274-1283): the totals, the allocation, the investment mix, the
\* monthly amount to goals, the base months-to-goal of every goal and the
\* insight list
basePlan ==
    [fixedTotal |-> fixedTotal, variableTotal |-> variableTotal,
     spendTotal |-> spendTotal, leftover |-> leftover,
     investShare |-> investShare, cashAmount |-> recSaveCash,
     investAmount |-> recInvest, mix |-> investMix,
     monthlyToGoals |-> monthlyToGoals,
     monthsToPrimary |-> monthsToPrimary,
     mBase |-> [i \in DOMAIN DEMO_GOALS |->
                   GoalRow(DEMO_GOALS[i], monthlyToGoals, whatIf).mBase],
     insights |-> insights]

\* a dashboard whose inputs hold drawn values and whose slider rests at zero
\* or at 500 dollars, one edit before the exploration bound
InitWhatIf ==
    /\ income \in WhatIfIncomes
    /\ rent \in {140000, 200000}
    /\ utilities = 18000
    /\ insurance = 12000
    /\ transport = 16000
    /\ groceries = 42000
    /\ dining = 22000
    /\ subscriptions = 4500
    /\ other = 12000
    /\ ccDebt \in {0, 120000}
    /\ ccApr = 1999
    /\ studentLoan = 800000
    /\ studentApr = 520
    /\ risk \in RiskOptions
    /\ cryptoPct \in {0, 500}
    /\ whatIf \in {0, 50000}
    /\ edits = MaxEdits - 1
    /\ args = <<>>
    /\ out = <<>>
    /\ pc = "input"
    /\ NoSession
    /\ NoSnapshot

\* one render kept for comparison: the boost it was made with, the base plan
\* and the boosted monthly amount it shows
RenderPlan ==
    /\ pc = "input"
    /\ args' = <<whatIf>>
    /\ out' = [plan |-> basePlan, monthlyToGoalsBoosted |-> monthlyToGoalsBoosted]
    /\ pc' = "done"
    /\ UNCHANGED <<dashVars, edits, sessionVars>>

NextWhatIf ==
    \/ RenderPlan
    \/ \E v \in WhatIfSliderValues : SlideWhatIf(v)

SpecWhatIf == InitWhatIf /\ [][NextWhatIf]_vars

(***************************************************************************)
(* Properties.                                                             *)
(***************************************************************************)
\* the card or the student loan carries a balance at more than 10 % APR
AnyHighInterestDebt ==
    \/ ccDebt > 0 /\ ccApr > 1000
    \/ studentLoan > 0 /\ studentApr > 1000

\* C1: for every leftover >= 0, risk profile and debt state the allocation
\* returns recSaveCash >= 0 and recInvest >= 0 with
\* recSaveCash + recInvest = leftover exactly.
C1_CashPlusInvestIsLeftover ==
    pc = "done" =>
        /\ out.recSaveCash >= 0
        /\ out.recInvest >= 0
        /\ out.recSaveCash + out.recInvest = leftover

\* C2 (as stated): for every risk profile, debt state and leftover >= 0 the
\* reported investShare satisfies 0.15 <= investShare <= 0.80.
C2_ShareWithinBounds ==
    pc = "done" =>
        /\ 15 * out.investShare[2] <= 100 * out.investShare[1]
        /\ 100 * out.investShare[1] <= 80 * out.investShare[2]

\* C2 (amended): there is a nominal share s with 0.15 <= s <= 0.80 such that
\* investShare = s when leftover = 0, and when leftover > 0 investShare is
\* recInvest / max(1, leftover) with recInvest >= 0 a whole number of dollars
\* no more than half a dollar away from s * leftover.
C2_ShareIsRoundedNominal ==
    pc = "done" =>
        \E s \in 15..80 :
            IF leftover = 0
            THEN out.investShare = <<s, 100>>
            ELSE /\ out.investShare = <<out.recInvest, Max(100, leftover)>>
                 /\ out.recInvest >= 0
                 /\ out.recInvest % 100 = 0
                 /\ 100 * out.recInvest - leftover * s <= 5000
                 /\ leftover * s - 100 * out.recInvest <= 5000

\* C2 witness: a rendered plan with a leftover of whole dollars whose realized
\* ratio lies above 0.80.
C2_Witness ==
    /\ pc = "done"
    /\ leftover >= 200
    /\ leftover % 100 = 0
    /\ 100 * out.investShare[1] > 80 * out.investShare[2]

\* the four values of C3 computed by the wizard from the dashboard's inputs
wizardView ==
    [income |-> income, rent |-> rent, utilities |-> utilities,
     insurance |-> insurance, subscriptions |-> subscriptions,
     transport |-> transport, groceries |-> groceries, dining |-> dining,
     other |-> other]

AllNonNegative ==
    \A f \in {"income", "rent", "utilities", "insurance", "transport",
              "groceries", "dining", "subscriptions", "other"} : valOf(f) >= 0

\* C3: for non-negative income and expenses, fixedTotal and variableTotal are
\* the sums of their four categories, spendTotal is their sum, leftover is
\* max(0, income - spendTotal), and the wizard computes the same four values
\* from the same inputs.
C3_Totals ==
    AllNonNegative =>
        /\ fixedTotal = rent + utilities + insurance + subscriptions
        /\ variableTotal = transport + groceries + dining + other
        /\ spendTotal = fixedTotal + variableTotal
        /\ leftover = (IF income >= spendTotal THEN income - spendTotal ELSE 0)
        /\ wizardFixedTotal(wizardView) = fixedTotal
        /\ wizardVariableTotal(wizardView) = variableTotal
        /\ wizardSpendTotal(wizardView) = spendTotal
        /\ wizardLeftover(wizardView) = leftover

\* C3 witness: after an edit the spend exceeds the income and the leftover is
\* floored at 0.
C3_Witness ==
    /\ edits > 0
    /\ AllNonNegative
    /\ income > 0
    /\ income < spendTotal
    /\ leftover = 0

\* the invest amount the memo returns for a nominal share s (in hundredths)
InvestAtShare(s) == 100 * MathRound(leftover * s, 10000)

\* the nominal share is s: it is the share reported at leftover 0 and the share
\* the invest amount is rounded from
UsesNominalShare(s) ==
    /\ nominalShare(risk, ccDebt, ccApr) = s
    /\ out.recInvest = InvestAtShare(s)
    /\ leftover = 0 => out.investShare = <<s, 100>>

C5_DebtOverride ==
    pc = "done" =>
        UsesNominalShare(IF AnyHighInterestDebt
                         THEN Max(15, baseShare(risk) - 25)
                         ELSE baseShare(risk))

\* C6: whenever a debt with balance > 0 and APR > 10 is present, the reported
\* investShare is strictly less than the base share of the risk profile.
C6_OverrideLowersShare ==
    (pc = "done" /\ AnyHighInterestDebt) =>
        100 * out.investShare[1] < baseShare(risk) * out.investShare[2]

\* C7: the crypto amount returned by investBreakdown never exceeds cryptoPct
\* percent (clamped to [0, 10]) of the invest amount.
C7_CryptoWithinCap ==
    (pc = "done" /\ args[1] >= 0) =>
        /\ out.crypto * 10000 <= Min(1000, Max(0, args[2])) * args[1]
        /\ out.crypto * 10 <= args[1]

\* C8: for investAmount >= 0 and cryptoCapPct in [0, 10], crypto, etf and bond
\* are each >= 0 and their sum is within 1 currency unit of investAmount.
C8_MixWithinOneUnit ==
    (pc = "done" /\ args[1] >= 0 /\ args[2] >= 0 /\ args[2] <= 1000) =>
        /\ out.crypto >= 0
        /\ out.etf >= 0
        /\ out.bond >= 0
        /\ out.crypto + out.etf + out.bond - args[1] <= 100
        /\ args[1] - (out.crypto + out.etf + out.bond) <= 100

\* C8 witness: a call with the cap in range that fills all three buckets.
C8_Witness ==
    /\ pc = "done"
    /\ args[2] > 0
    /\ args[2] <= 1000
    /\ out.crypto > 0
    /\ out.etf > 0
    /\ out.bond > 0

\* C9: in every dashboard state with a boost >= 0, the boosted projection of
\* every goal, and of the primary goal, is at most the base projection.
C9_BoostNeverSlower ==
    whatIf >= 0 =>
        /\ \A i \in 1..Len(DEMO_GOALS) :
              LET row == GoalRow(DEMO_GOALS[i], monthlyToGoals, whatIf)
              IN  row.mBoost <= row.mBase
        /\ monthsToPrimaryBoost <= monthsToPrimary

\* C9 witness: the slider holds a boost that shortens the primary goal.
C9_Witness ==
    /\ whatIf > 0
    /\ monthsToPrimaryBoost < monthsToPrimary
    /\ GoalRow(DEMO_GOALS[2], monthlyToGoals, whatIf).mBoost
           < GoalRow(DEMO_GOALS[2], monthlyToGoals, whatIf).mBase

\* C10: monthsToGoal is non-increasing in the rate, zero and negative rates
\* included, and its result is an integer >= 0.
C10_MonotoneInRate ==
    pc = "done" =>
        /\ out \in Nat
        /\ \A r2 \in GoalRates :
              r2 >= args[3] => monthsToGoal(args[1], args[2], r2) <= out
        /\ \A r1 \in GoalRates :
              r1 <= args[3] => monthsToGoal(args[1], args[2], r1) >= out

\* C10 witness: a call with a zero or negative rate and an amount remaining,
\* which a larger drawn rate strictly improves.
C10_Witness ==
    /\ pc = "done"
    /\ args[3] <= 0
    /\ out > 0
    /\ \E r2 \in GoalRates : monthsToGoal(args[1], args[2], r2) < out

\* C11: monthsToGoal(target, saved, rate) = 0 whenever saved >= target, for
\* every rate.
C11_CompleteGoalIsZero ==
    (pc = "done" /\ args[2] >= args[1]) => out = 0

\* C11 witness: a call whose saved amount exceeds a positive target, made with
\* a zero or negative rate.
C11_Witness ==
    /\ pc = "done"
    /\ args[1] > 0
    /\ args[2] > args[1]
    /\ args[3] <= 0
    /\ out = 0


\* the position of a tag in the declaration order of the rules
RuleIndex(tag) == CHOOSE k \in 1..6 : insightRules[k].insight.tag = tag

\* the number of rules among the first k whose condition holds
RECURSIVE FiringUpTo(_)
FiringUpTo(k) ==
    IF k = 0 THEN 0
    ELSE FiringUpTo(k - 1) + (IF insightRules[k].when THEN 1 ELSE 0)

\* C12: the insight list has at most 5 entries and is the first five insights
\* emitted by the six rules in declaration order: the j-th firing rule, for
\* j <= 5, supplies entry j, nothing else is listed, and when all six rules
\* fire the emergency-fund insight is the one left out.
C12_FirstFiveInOrder ==
    pc = "done" =>
        /\ Len(out) <= 5
        /\ Len(out) = Min(5, FiringUpTo(6))
        /\ \A k \in 1..6 :
              (insightRules[k].when /\ FiringUpTo(k) <= 5)
                  => out[FiringUpTo(k)] = insightRules[k].insight
        /\ \A i, j \in 1..Len(out) :
              i < j => RuleIndex(out[i].tag) < RuleIndex(out[j].tag)
        /\ FiringUpTo(6) = 6
              => [i \in 1..5 |-> out[i].tag]
                     = <<"benchmark", "debt", "quick win", "behavior", "coach">>

\* C12 witness: a render in which all six rules fire and five insights are
\* listed.
C12_Witness ==
    /\ pc = "done"
    /\ \A k \in 1..6 : insightRules[k].when
    /\ Len(out) = 5
    /\ out[5].tag = "coach"

\* the insight with the given tag is listed
Listed(tag) == \E i \in 1..Len(out) : out[i].tag = tag

\* the amounts of the listed insight with the given tag
AmountsOf(tag) == out[CHOOSE i \in 1..Len(out) : out[i].tag = tag].amounts

\* C13: the high-interest-debt insight is emitted exactly when the card or the
\* student loan has a balance > 0 at an APR >= 15 %; it recommends redirecting
\* min(300, monthlyToGoals), and for the card it estimates next month's
\* interest as round(apr / 100 / 12 * balance).
C13_DebtInsightForAnyDebt ==
    pc = "done" =>
        /\ Listed("debt") <=> \/ ccDebt > 0 /\ ccApr >= 1500
                              \/ studentLoan > 0 /\ studentApr >= 1500
        /\ Listed("debt") =>
              /\ AmountsOf("debt")[1] = Min(30000, monthlyToGoals)
              /\ (ccDebt > 0 /\ ccApr >= 1500) =>
                    AmountsOf("debt")[2]
                        = 100 * ((2 * ccApr * ccDebt + 12000000) \div 24000000)

\* C14 as stated: for rent >= 0 and income >= 0 the housing insight is emitted
\* exactly when rent / income > 0.35 (a positive rent over no income counts as
\* above), and with a positive income its trim is
\* round(((100 * rent / income - 30) / 100) * income) = round(rent - 0.3 * income).
C14_HousingByPlainRatio ==
    (pc = "done" /\ rent >= 0 /\ income >= 0) =>
        /\ Listed("benchmark") <=> \/ income = 0 /\ rent > 0
                                   \/ income > 0 /\ 100 * rent > 35 * income
        /\ (Listed("benchmark") /\ income > 0) =>
              AmountsOf("benchmark")[1]
                  = 100 * ((2 * (10 * rent - 3 * income) + 1000) \div 2000)

\* C14: for rent >= 0 and income >= 0 the housing insight is emitted exactly
\* when rent / max(1, income) > 0.35, with trim
\* round(((housingPct - 30) / 100) * income), housingPct = 100 * rent / max(1, income):
\* from one dollar of income up that is rent / income > 0.35 and
\* round(rent - 0.3 * income); below one dollar it is rent > 0.35 and
\* round((rent - 0.3) * income); rent 2000 on income 4000 gives trim 800.
C14_HousingByGuardedRatio ==
    (pc = "done" /\ rent >= 0 /\ income >= 0) =>
        /\ income >= 100 =>
              /\ Listed("benchmark") <=> 100 * rent > 35 * income
              /\ Listed("benchmark") =>
                    AmountsOf("benchmark")[1]
                        = 100 * ((2 * (10 * rent - 3 * income) + 1000) \div 2000)
        /\ income < 100 =>
              /\ Listed("benchmark") <=> rent > 35
              /\ Listed("benchmark") =>
                    AmountsOf("benchmark")[1]
                        = 100 * ((2 * (rent - 30) * income + 10000) \div 20000)
        /\ (rent = 200000 /\ income = 400000) =>
              /\ Listed("benchmark")
              /\ AmountsOf("benchmark")[1] = 80000

\* C14 witness: scenario E rendered, rent 2000 on income 4000 with trim 800.
C14_Witness ==
    /\ pc = "done"
    /\ rent = 200000
    /\ income = 400000
    /\ Listed("benchmark")
    /\ AmountsOf("benchmark") = <<80000>>

\* the requests of the sheet whose fetch has not settled
SheetInFlight ==
    {i \in 1..Len(requests) :
        requests[i].from = "sheet" /\ requests[i].stage # "closed"}

\* C15: at most one request of the chat session is in flight at any time, and
\* a request is issued only by a Send click accepted while none is
\* outstanding: no step issues a request for an earlier submission.
C15_OneRequestInFlight ==
    [][/\ Cardinality(SheetInFlight') <= 1
       /\ Len(requests') # Len(requests) =>
             /\ Len(requests') = Len(requests) + 1
             /\ SheetInFlight = {}
             /\ ~isSending /\ isSending'
             /\ chatHistory' = Append(chatHistory, chatHistory'[Len(chatHistory')])
             /\ chatHistory'[Len(chatHistory')].role = "user"]_vars

\* C15 witness: a second request of the session is in flight after the first
\* has settled, with the sheet open and the Send button disabled.
C15_Witness ==
    /\ Len(requests) = 2
    /\ requests[1].stage = "closed"
    /\ SheetInFlight = {2}
    /\ open
    /\ isSending
    /\ sendDisabled

\* the requests the route has answered
Answered == {i \in 1..Len(requests) : requests[i].status # 0}

\* the bodies that POST cannot read: req.json(), the destructuring or
\* messages.map throw
UnreadableBody(body) == body.kind \in {"invalid", "null", "bad-messages"}

\* C16: without a credential every POST is answered 503 with an {error} body
\* and no completion call; with a credential no answer is 503, every failure
\* (unreadable body, completion call failed, empty output) is answered 500
\* with an {error} body, and only a reply is answered 200.
C16_UnavailableOnlyWithoutCredential ==
    \A i \in Answered :
        LET r == requests[i]
        IN  /\ apiKey = "" =>
                  r.status = 503 /\ r.result.kind = "error" /\ r.calls = 0
            /\ r.status = 503 => apiKey = ""
            /\ apiKey # "" =>
                  /\ r.status \in {200, 500}
                  /\ r.status = 500 <=> r.result.kind = "error"
                  /\ r.status = 200 <=> r.result.kind = "reply"
                  /\ UnreadableBody(r.body) => r.status = 500 /\ r.calls = 0
                  /\ r.completion.kind = "thrown" => r.status = 500
                  /\ r.completion.kind \in {"no-choices", "null-content"}
                        => r.status = 500

\* C16 witness: without a credential, an unreadable body and a well-formed one
\* have both been answered 503 with no completion call.
C16_Witness ==
    /\ apiKey = ""
    /\ Len(requests) = 2
    /\ UnreadableBody(requests[1].body)
    /\ requests[2].body.kind = "json"
    /\ \A i \in 1..2 : requests[i].status = 503 /\ requests[i].calls = 0

\* the completion of the request carried no usable text: no choice, null
\* content, or a content that is empty or white space only
EmptyOutput(r) ==
    \/ r.completion.kind \in {"no-choices", "null-content"}
    \/ r.completion.kind = "content" /\ r.completion.text \in {"", "  "}

\* C17: an empty, missing or blank model output is answered with {error} and
\* never with {reply}; a {reply} is never empty and carries no outer white
\* space; and the answer to an empty output differs from the answer to a
\* failed completion call.
C17_EmptyOutputIsDistinctError ==
    /\ \A i \in Answered :
          LET r == requests[i]
          IN  /\ EmptyOutput(r) => r.result.kind = "error"
              /\ r.result.kind = "reply" =>
                    /\ r.result.text # ""
                    /\ trim(r.result.text) = r.result.text
                    /\ r.completion.kind = "content"
    /\ \A i, j \in Answered :
          (EmptyOutput(requests[i]) /\ requests[j].completion.kind = "thrown")
              => <<requests[i].status, requests[i].result>>
                     # <<requests[j].status, requests[j].result>>

\* C17 witness: one request answered after a blank output and one answered
\* after a failed completion call.
C17_Witness ==
    /\ Len(requests) = 2
    /\ requests[1].completion = Content("  ")
    /\ requests[1].result.kind = "error"
    /\ requests[2].completion.kind = "thrown"
    /\ requests[2].status = 500

\* the user messages in the chat history
UserMessages == {k \in 1..Len(chatHistory) : chatHistory[k].role = "user"}

\* C18: every accepted submission has exactly one request, the route makes at
\* most one completion call per request, a settled request is never touched
\* again, and the step that settles a request, whatever its outcome, issues
\* no request and ends the sending state.
C18_NoRetry ==
    [][/\ \A i \in 1..Len(requests') : requests'[i].calls <= 1
       /\ Cardinality(UserMessages') = Len(requests')
       /\ \A i \in 1..Len(requests) :
             /\ requests[i].stage = "closed" => requests'[i] = requests[i]
             /\ requests[i].stage = "responded" =>
                   requests'[i].stage \in {"responded", "closed"}
             /\ (requests[i].stage # "closed" /\ requests'[i].stage = "closed")
                   => /\ Len(requests') = Len(requests)
                      /\ ~isSending'
                      /\ Len(chatHistory') = Len(chatHistory) + 1]_vars

\* C18 witness: two submissions have failed, one answered 500 or 503 and one
\* not answered by the route at all, with one request each.
C18_Witness ==
    /\ Len(requests) = 2
    /\ \A i \in 1..2 : requests[i].stage = "closed"
    /\ requests[1].status \in {500, 503}
    /\ requests[2].status \in {0, 502}
    /\ Cardinality(UserMessages) = 2
    /\ Len(chatHistory) = 5
    /\ ~isSending

\* the property f of the stored item as the seed load effect can read it
StoredProperty(f) ==
    IF storageEnv # "denied" /\ storage.kind = "object" THEN storage.fields[f]
    ELSE JSUndefined

\* C19: whatever is stored, the dashboard mounts, and each of its inputs holds
\* the stored property when that is of the right type (a number; a string for
\* the risk profile) and its default otherwise; the what-if boost, which is
\* not part of the snapshot, holds its default.
C19_PerFieldMerge ==
    mode = "dashboard" =>
        /\ \A f \in NumberFields :
              valOf(f) = IF StoredProperty(f).type = "number"
                         THEN StoredProperty(f).num
                         ELSE DashboardDefaultValues[f]
        /\ cryptoPct = IF StoredProperty("cryptoPct").type = "number"
                       THEN StoredProperty("cryptoPct").num
                       ELSE 0
        /\ risk = IF StoredProperty("risk").type = "string"
                  THEN StoredProperty("risk").str
                  ELSE "balanced"
        /\ whatIf = 0

\* C19 witness: the dashboard has loaded the partially shaped snapshot: the
\* well-typed income, dining and student APR are taken, the wrongly typed
\* rent, card balance, risk and crypto percentage and the missing fields keep
\* their defaults.
C19_Witness ==
    /\ mode = "dashboard"
    /\ storage = PartialSeed
    /\ storageEnv = "full"
    /\ income = 520050 /\ dining = 0 /\ studentApr = 675
    /\ rent = 200000 /\ ccDebt = 120000 /\ risk = "balanced" /\ cryptoPct = 0
    /\ utilities = 18000

\* C20: whenever the dashboard is shown, the stored snapshot is the one
\* written from the values the wizard held at Finish, and the dashboard's
\* income, expenses, debts, risk profile and crypto percentage equal those
\* values.
C20_RoundTrip ==
    mode = "dashboard" =>
        /\ storage = StoredObject(toStored(wizard))
        /\ \A f \in NumberFields : valOf(f) = wizard[f]
        /\ risk = wizard.risk
        /\ cryptoPct = wizard.cryptoPct

\* C21: after any sequence of edits (typing, the -/+ buttons, the sliders),
\* every numeric input that reaches the calculator - income, the expenses, the
\* debt balances, the APRs, the crypto percentage and the what-if boost - is
\* >= 0 (a non-finite entry is stored as 0).
C21_InputsNonNegative ==
    /\ \A f \in NumberFields : valOf(f) >= 0
    /\ cryptoPct >= 0
    /\ whatIf >= 0

\* C22: a change of the what-if boost leaves the base plan as it was: after
\* any move of the slider the totals, leftover, investShare, the cash and
\* invest amounts, the crypto/etf/bond mix, monthlyToGoals, the base
\* months-to-goal of every goal and the insight list are those of the render
\* made before the move, and monthlyToGoalsBoosted has moved by exactly the
\* change of the boost.
C22_BoostLeavesBasePlan ==
    pc = "done" =>
        /\ basePlan = out.plan
        /\ monthlyToGoalsBoosted - out.monthlyToGoalsBoosted = whatIf - args[1]

\* the boost has been raised since the render and shortens the projection of
\* the primary goal, while the base projection is the rendered one
C22_Witness ==
    /\ pc = "done"
    /\ whatIf > args[1]
    /\ monthsToPrimaryBoost < monthsToPrimary
    /\ monthsToPrimary = out.plan.monthsToPrimary


\* C23: for every risk profile other than yolo the crypto amount of the
\* investment mix is 0 and the etf and bond amounts are those of a crypto
\* percentage of 0, whatever the crypto percentage is.
C23_CryptoOnlyForYolo ==
    risk # "yolo" => investMix = investBreakdown(recInvest, 0)


\* the default inputs of the dashboard: scenario A with the balanced profile
\* and a card balance of 1200 at 19.99 % APR
DefaultScenario ==
    /\ income = 400000 /\ rent = 200000 /\ utilities = 18000
    /\ insurance = 12000 /\ subscriptions = 4500 /\ transport = 16000
    /\ groceries = 42000 /\ dining = 22000 /\ other = 12000
    /\ risk = "balanced" /\ ccDebt = 120000 /\ ccApr = 1999

DefaultTotals ==
    /\ fixedTotal = 234500
    /\ variableTotal = 92000
    /\ spendTotal = 326500
    /\ leftover = 73500
    /\ recInvest = 22100
    /\ recSaveCash = 51400

\* C24 as stated: with the default inputs the dashboard yields fixedTotal=2345,
\* variableTotal=920, spendTotal=3265, leftover=735, investShare=0.30,
\* investAmount=221 and cashAmount=514.
C24_DefaultScenarioShare30 ==
    DefaultScenario =>
        /\ DefaultTotals
        /\ 100 * investShare[1] = 30 * investShare[2]

\* C24, amended: with the default inputs the dashboard yields fixedTotal=2345,
\* variableTotal=920, spendTotal=3265, leftover=735, investAmount=221 and
\* cashAmount=514; the nominal share is 0.30, and the investShare it reports
\* is the realized ratio 221/735, which it shows as 30 %.
C24_DefaultScenario ==
    DefaultScenario =>
        /\ DefaultTotals
        /\ nominalShare(risk, ccDebt, ccApr) = 30
        /\ investShare = <<22100, 73500>>
        /\ investSharePct = 30

\* the default inputs are on screen again after the sliders have been moved
C24_Witness ==
    /\ DefaultScenario
    /\ recInvest = 22100
    /\ edits > 0


\* an amount of whole dollars (cents) in dollars
WholeDollars(amount) == amount \div 100

\* C25: the reported investShare is the realized ratio investAmount / leftover
\* when leftover > 0 and the nominal share (the base share of the profile after
\* the debt override) when leftover = 0; no division by zero occurs.
C25_ShareIsInvestOverLeftover ==
    pc = "done" =>
        /\ out.investShare[2] > 0
        /\ IF leftover > 0
           THEN WholeDollars(out.investShare[1]) * leftover
                    = WholeDollars(out.recInvest) * out.investShare[2]
           ELSE out.investShare =
                    << IF AnyHighInterestDebt THEN Max(15, baseShare(risk) - 25)
                       ELSE baseShare(risk), 100 >>


\* C26: for every invest amount of whole dollars >= 0 and every crypto
\* percentage, the crypto, etf and bond amounts returned by investBreakdown
\* sum to the invest amount exactly.
C26_BucketsSumToInvest ==
    (pc = "done" /\ args[1] >= 0 /\ args[1] % 100 = 0) =>
        out.crypto + out.etf + out.bond = args[1]

\* a call on whole dollars that fills all three buckets and in which both the
\* crypto amount and the etf amount are rounded
C26_Witness ==
    /\ pc = "done"
    /\ args[1] > 0
    /\ args[1] % 100 = 0
    /\ out.crypto > 0
    /\ out.bond > 0
    /\ out.crypto * 10000 # Min(1000, Max(0, args[2])) * args[1]
    /\ out.etf * 10 # 8 * (args[1] - out.crypto)


\* C27: in every dashboard state monthlyToGoals equals leftover and the
\* cushion after goals, monthlyAfterGoals, is 0; monthlyToGoals is then the
\* same for every risk profile and card debt, and with it the goal
\* projections and the low-savings-rate rule.
C27_AllLeftoverGoesToGoals ==
    /\ monthlyToGoals = leftover
    /\ monthlyAfterGoals = 0
    /\ \A r \in RiskOptions, debt \in {0, ccDebt} :
          LET plan == allocation(leftover, r, debt, ccApr)
          IN  plan.recSaveCash + plan.recInvest = monthlyToGoals


\* the history is the greeting followed by pairs of a user message and the
\* assistant message appended when its request settled; the last pair lacks
\* its assistant message exactly while the sheet is sending
HistoryInPairs ==
    /\ chatHistory[1] = [role |-> "assistant", text |-> defaultGreeting]
    /\ \A k \in 2..Len(chatHistory) :
          chatHistory[k].role = IF k % 2 = 0 THEN "user" ELSE "assistant"
    /\ isSending <=> Len(chatHistory) % 2 = 0
    /\ Len(chatHistory) = 1 + Len(requests)
                            + Cardinality({i \in 1..Len(requests) :
                                              requests[i].stage = "closed"})

\* the assistant message of every settled request is the reply when the
\* request was answered 200 with a reply, and an error text otherwise
RepliesOrErrors ==
    \A i \in 1..Len(requests) :
        requests[i].stage = "closed" =>
            LET r == requests[i]
                text == chatHistory[2 * i + 1].text
            IN  /\ text # ""
                /\ (r.status = 200 /\ r.result.kind = "reply") =>
                       text = r.result.text
                /\ (r.status # 200 \/ r.result.kind # "reply") =>
                       text \in {"Failed to fetch",
                                 "Unexpected token '<', \"<html>\" is not valid JSON",
                                 "Unable to reach Grain right now."}
                                    \cup {r.result.text}

\* handleSend on an empty or whitespace-only input returns without a change,
\* and the Send button is disabled on such an input
BlankChangesNothing ==
    /\ \A text \in TypedTexts :
          trim(text) = "" =>
              handleSendSync(text, chatHistory, isSending) =
                  [accepted |-> FALSE, chatInput |-> text,
                   chatHistory |-> chatHistory, isSending |-> isSending,
                   messages |-> <<>>]
    /\ trim(chatInput) = "" => sendDisabled

\* C28: every accepted submission completes once its fetch settles: the user
\* message is appended first, then exactly one assistant message after it (the
\* reply on success, an error text on any failure), and isSending returns to
\* false; a submission of an empty or whitespace-only input changes nothing.
C28_SubmissionCompletes ==
    /\ [](HistoryInPairs /\ RepliesOrErrors /\ BlankChangesNothing)
    /\ isSending
          ~> (/\ ~isSending
              /\ Len(chatHistory) >= 3
              /\ chatHistory[Len(chatHistory)].role = "assistant"
              /\ chatHistory[Len(chatHistory) - 1].role = "user"
              /\ \A i \in 1..Len(requests) : requests[i].stage = "closed")

\* two submissions have completed, the first with a reply and the second with
\* an error text, and a further message can be sent
C28_Witness ==
    /\ Len(requests) = 2
    /\ \A i \in 1..2 : requests[i].stage = "closed"
    /\ requests[1].result.kind = "reply"
    /\ chatHistory[3].text = requests[1].result.text
    /\ requests[2].result.kind = "error"
    /\ chatHistory[5].text = requests[2].result.text
    /\ ~isSending
    /\ Len(chatHistory) = 5


\* C29: the message list of the request issued by the i-th submission is the
\* chat history as displayed at that submission without the initial greeting:
\* it ends with the message just submitted and holds every assistant message
\* appended before it, error texts included; when the route calls the model it
\* passes one system message followed by that list in the same order.
C29_HistorySentInOrder ==
    \A i \in 1..Len(requests) :
        LET r == requests[i]
            sent == r.body.messages
        IN  /\ r.from = "sheet"
            /\ r.body.kind = "json"
            /\ sent = SubSeq(chatHistory, 2, 2 * i)
            /\ sent[Len(sent)] = chatHistory[2 * i]
            /\ sent[Len(sent)].role = "user"
            /\ \A k \in 1..Len(sent) : sent[k].text # defaultGreeting
            /\ r.calls > 0 =>
                  /\ Len(r.upstream) = 1 + Len(sent)
                  /\ r.upstream[1].role = "system"
                  /\ \A k \in 1..Len(sent) :
                        r.upstream[k + 1] =
                            [role |-> sent[k].role, content |-> sent[k].text]

\* the second submission follows a failed first one: its list holds the first
\* message, the error text shown for it and the new message, and the route
\* has passed them to the model after the system message
C29_Witness ==
    /\ Len(requests) = 2
    /\ requests[1].result.kind = "error"
    /\ requests[2].calls = 1
    /\ Len(requests[2].upstream) = 4
    /\ requests[2].upstream[3] =
           [role |-> "assistant", content |-> requests[1].result.text]
    /\ requests[2].upstream[4].role = "user"


\* C30: the step in which handleSend accepts a message leaves the chat input
\* empty, and the input stays empty while the request is outstanding; the
\* preset of an insight card is placed in the input only by a step that opens
\* the sheet or sets the preset, on an empty input, and is not put back after
\* it has been sent or deleted.
C30_InputEmptyAfterSend ==
    [][/\ Len(requests') > Len(requests) => chatInput' = ""
       /\ (isSending /\ isSending' /\ chatInput = "") => chatInput' = ""
       /\ (chatInput' # chatInput /\ chatInput' = presetMsg' /\ presetMsg' # "") =>
             /\ open'
             /\ trim(chatInput) = ""
             /\ ~open \/ presetMsg' # presetMsg]_vars

=============================================================================
